---- MODULE Spec2Model ----
(***************************************************************************)
(* Model of src/lib/http.service.ts (the HttpService facade over one axios *)
(* instance) and of the router's beforeEach guard.                         *)
(*                                                                         *)
(* JavaScript values are tagged records: undefined, null, strings, numbers *)
(* and objects (a record with t = "object" and one field per own key).     *)
(* A promise's settlement is [kind |-> "fulfilled" | "rejected", value].   *)
(***************************************************************************)
EXTENDS Integers, Sequences, FiniteSets, TLC

VARIABLES
    authToken,      \* module-level `let authToken` (http.service.ts:15)
    Authorization,  \* http.defaults.headers.common["Authorization"]
    lastArg,        \* history: argument of the latest setAuthToken call
    calls,          \* the calls made through the facade or the bare client
    token_user,     \* localStorage item "token_user"
    nav,            \* the navigation the router is resolving
    route,          \* the path of the route the application is on
    navLog          \* paths of the navigations that were confirmed

httpVars == <<authToken, Authorization, lastArg, calls>>
routerVars == <<token_user, nav, route, navLog>>
vars == <<authToken, Authorization, lastArg, calls, token_user, nav, route, navLog>>

-----------------------------------------------------------------------------
(* JavaScript values *)

Undefined == [t |-> "undefined"]
Null == [t |-> "null"]
Str(s) == [t |-> "string", s |-> s]
Num(n) == [t |-> "number", n |-> n]

\* v == null  (loose equality: true of null and undefined only)
IsNullish(v) == v \in {Undefined, Null}

\* the condition of `v ? a : b`
Truthy(v) == v \notin {Undefined, Null, Str(""), Num(0)}

\* o.k where o is not null or undefined: an own key's value, else undefined
Get(o, k) == IF o.t = "object" /\ k \in DOMAIN o THEN o[k] ELSE Undefined

\* o?.k
OptGet(o, k) == IF IsNullish(o) THEN Undefined ELSE Get(o, k)

\* a ?? b
Nullish(a, b) == IF IsNullish(a) THEN b ELSE a

\* the TypeError a property read of null or undefined throws
TypeError == [t |-> "object", name |-> Str("TypeError"),
              message |-> Str("Cannot read properties of null or undefined")]

Fulfilled(v) == [kind |-> "fulfilled", value |-> v]
Rejected(v) == [kind |-> "rejected", value |-> v]

-----------------------------------------------------------------------------
(* Inputs *)

Methods == {"get", "post", "put", "patch", "delete"}
Urls == {"/users"}
Body == [t |-> "object", name |-> Str("n")]
Datas == {Undefined, Body}
Tokens == {Null, Str(""), Str("abc")}

\* what the transport (axios' dispatch) settles a request with
Response(status, data) == [t |-> "object", status |-> Num(status), data |-> data]

CodeText(code) ==
    CASE code = 400 -> "400" [] code = 401 -> "401" [] code = 403 -> "403"
      [] code = 404 -> "404" [] code = 418 -> "418" [] code = 500 -> "500"
      [] OTHER -> "503"

AxiosStatusError(code, data) ==
    [t |-> "object",
     message |-> Str("Request failed with status code " \o CodeText(code)),
     response |-> Response(code, data)]

AxiosNetworkError == [t |-> "object", message |-> Str("Network Error")]

ServerMessage == [t |-> "object", message |-> Str("server says no")]

FailureStatuses == {400, 401, 403, 404, 418, 500, 503}

SuccessOutcomes ==
    { Fulfilled(Response(200, [t |-> "object", id |-> Num(1)])),
      Fulfilled(Response(200, Null)),
      Fulfilled(Response(204, Str(""))) }

StatusOutcomes ==
    { Rejected(AxiosStatusError(code, ServerMessage)) : code \in FailureStatuses }
      \cup { Rejected(AxiosStatusError(404, Str(""))) }

ThrownOutcomes == { Rejected(Null), Rejected(Undefined), Rejected(Str("boom")) }

TransportOutcomes ==
    SuccessOutcomes \cup StatusOutcomes \cup {Rejected(AxiosNetworkError)}
      \cup ThrownOutcomes

-----------------------------------------------------------------------------
(* http.service.ts *)

\* getErrorMessage with the default case left out
getErrorMessage_noDefault(status) ==
    CASE status = Num(400) -> Str("Bad Request")
      [] status = Num(401) -> Str("Unauthorized")
      [] status = Num(403) -> Str("Forbidden")
      [] status = Num(404) -> Str("Not Found")
      [] status = Num(500) -> Str("Internal Server Error")
      [] OTHER -> Undefined

\* getErrorMessage falling through to the label of 500
getErrorMessage_fallsTo500(status) ==
    CASE status = Num(400) -> Str("Bad Request")
      [] status = Num(401) -> Str("Unauthorized")
      [] status = Num(403) -> Str("Forbidden")
      [] status = Num(404) -> Str("Not Found")
      [] OTHER -> Str("Internal Server Error")

getErrorMessage(status) ==
    CASE status = Num(400) -> Str("Bad Request")
      [] status = Num(401) -> Str("Unauthorized")
      [] status = Num(403) -> Str("Forbidden")
      [] status = Num(404) -> Str("Not Found")
      [] status = Num(500) -> Str("Internal Server Error")
      [] OTHER -> Str("Error")

\* token !== null ? `Bearer ${token}` : ""
BearerHeader_nullTest(token) ==
    IF token # Null THEN Str("Bearer " \o token.s) ELSE Str("")

\* token ? `Bearer ${token}` : ""
BearerHeader(token) ==
    IF Truthy(token) THEN Str("Bearer " \o token.s) ELSE Str("")

\* no normalisation: the transport's rejection passes through as it is
interceptorRejected_passThrough(error) == Rejected(error)

\* the response interceptor's rejection handler: (error) => { ... }
interceptorRejected(error) ==
    IF IsNullish(error)
    THEN Rejected(TypeError)
    ELSE LET status == OptGet(Get(error, "response"), "status")
             message == Nullish(
                 OptGet(OptGet(Get(error, "response"), "data"), "message"),
                 Get(error, "message"))
             errorMessage == getErrorMessage(status)
         IN Rejected([t |-> "object", message |-> message, status |-> status,
                      errorMessage |-> errorMessage])

\* the response interceptor's fulfilment handler: (response) => response
interceptorFulfilled(response) == Fulfilled(response)

\* what awaiting http[method](url, data) settles with, the transport having
\* settled with `outcome`: the interceptor pair runs on it
httpSettle(outcome) ==
    IF outcome.kind = "fulfilled"
    THEN interceptorFulfilled(outcome.value)
    ELSE interceptorRejected(outcome.value)

\* the catch block of request
requestCatch(error) ==
    LET status == OptGet(OptGet(error, "response"), "status")
        left == OptGet(OptGet(OptGet(error, "response"), "data"), "message")
        errorMessage == getErrorMessage(status)
    IN IF IsNullish(left) /\ IsNullish(error)
       THEN Rejected(TypeError)
       ELSE Fulfilled([t |-> "object", data |-> Null,
                       error |-> [t |-> "object",
                                  message |-> Nullish(left, Get(error, "message")),
                                  status |-> status,
                                  errorMessage |-> errorMessage]])

\* the try block of request, the awaited promise having settled with `settled`
requestSettle(settled) ==
    IF settled.kind = "fulfilled"
    THEN IF IsNullish(settled.value)
         THEN requestCatch(TypeError)
         ELSE Fulfilled([t |-> "object", data |-> Get(settled.value, "data")])
    ELSE requestCatch(settled.value)

Pending == [kind |-> "pending"]

\* http[method](url, data): the request is built from the defaults now
Dispatch(via, client, method, url, data) ==
    /\ calls' = Append(calls,
          [via |-> via, client |-> client, method |-> method, url |-> url,
           data |-> data, header |-> Authorization, tokenAtIssue |-> lastArg,
           outcome |-> Pending, settled |-> Pending, result |-> Pending])
    /\ UNCHANGED <<authToken, Authorization, lastArg, routerVars>>

NeverCalled == [t |-> "never"]

\* setAuthToken when the requests in flight share the defaults' headers
setAuthToken_restamps(token) ==
    /\ authToken' = token
    /\ Authorization' = BearerHeader(token)
    /\ lastArg' = token
    /\ calls' = [i \in 1..Len(calls) |->
                    IF calls[i].outcome = Pending
                    THEN [calls[i] EXCEPT !.header = BearerHeader(token)]
                    ELSE calls[i]]
    /\ UNCHANGED routerVars

setAuthToken(token) ==
    /\ authToken' = token
    /\ Authorization' = BearerHeader(token)
    /\ lastArg' = token
    /\ UNCHANGED <<calls, routerVars>>

request(method, url, data) == Dispatch("request", "facade", method, url, data)

get(url) == Dispatch("get", "facade", "get", url, Undefined)

post(url, data) == Dispatch("post", "facade", "post", url, data)

put(url, data) == Dispatch("put", "facade", "put", url, data)

patch(url, data) == Dispatch("patch", "facade", "patch", url, data)

\* delete sent with the method of get
delete_asGet(url) == Dispatch("delete", "facade", "get", url, Undefined)

delete(url) == Dispatch("delete", "facade", "delete", url, Undefined)

\* a caller that uses the exported axios instance, HttpService.http, itself
httpDirect(method, url, data) == Dispatch("http", "direct", method, url, data)

\* the transport settles call i: the interceptors run, then (for a call made
\* through the facade) request resumes after its await
Settle(i, outcome) ==
    /\ i \in 1..Len(calls)
    /\ calls[i].outcome = Pending
    /\ LET settled == httpSettle(outcome)
       IN calls' = [calls EXCEPT ![i] =
              [@ EXCEPT !.outcome = outcome,
                        !.settled = settled,
                        !.result = IF calls[i].client = "facade"
                                   THEN requestSettle(settled)
                                   ELSE settled]]
    /\ UNCHANGED <<authToken, Authorization, lastArg, routerVars>>

\* the caller has its awaited result and lets go of it
Consume(i) ==
    /\ i \in 1..Len(calls)
    /\ calls[i].outcome # Pending
    /\ calls' = [j \in 1..(Len(calls) - 1) |->
                    IF j < i THEN calls[j] ELSE calls[j + 1]]
    /\ UNCHANGED <<authToken, Authorization, lastArg, routerVars>>

-----------------------------------------------------------------------------
(* The router *)

Paths == {"/login", "/", "/reports"}
StoredTokens == {Str(""), Str("tok")}

\* localStorage.getItem("token_user")
getItem == token_user

\* the guard with an empty list of public pages
beforeEach_noPublicPages(to) ==
    LET publicPages == {}
        authRequired == to \notin publicPages
    IN IF authRequired /\ IsNullish(getItem) THEN Str("/login") ELSE Undefined

\* the guard: what the callback given to router.beforeEach returns for `to`
beforeEach(to) ==
    LET publicPages == {"/login"}
        authRequired == to \notin publicPages
    IN IF authRequired /\ IsNullish(getItem) THEN Str("/login") ELSE Undefined

\* the application stores or removes the item the guard reads
setItem(value) ==
    /\ token_user' = value
    /\ UNCHANGED <<nav, route, navLog, httpVars>>

removeItem ==
    /\ token_user' = Null
    /\ UNCHANGED <<nav, route, navLog, httpVars>>

\* a navigation to `path` starts
push(path) ==
    /\ nav = Null
    /\ nav' = [to |-> path, redirects |-> 0]
    /\ UNCHANGED <<token_user, route, navLog, httpVars>>

\* the router runs the guard on the pending navigation: a returned path
\* restarts the navigation at that path, undefined confirms it
Resolve ==
    /\ nav # Null
    /\ LET target == beforeEach(nav.to)
       IN IF target = Undefined
          THEN /\ route' = nav.to
               /\ navLog' = Append(navLog, nav.to)
               /\ nav' = Null
          ELSE /\ nav' = [to |-> target.s, redirects |-> nav.redirects + 1]
               /\ UNCHANGED <<route, navLog>>
    /\ UNCHANGED <<token_user, httpVars>>

-----------------------------------------------------------------------------
(* Specifications *)

Init ==
    /\ authToken = Null
    /\ Authorization = BearerHeader(authToken)
    /\ lastArg = NeverCalled
    /\ calls = <<>>
    /\ token_user = Null
    /\ nav = Null
    /\ route = "/"
    /\ navLog = <<>>

\* a client that awaits each call before it makes the next
Next ==
    \/ \E token \in Tokens : setAuthToken(token)
    \/ \E m \in Methods, url \in Urls, data \in Datas :
          calls = <<>> /\ request(m, url, data)
    \/ \E url \in Urls : calls = <<>> /\ get(url)
    \/ \E url \in Urls, data \in Datas : calls = <<>> /\ post(url, data)
    \/ \E url \in Urls, data \in Datas : calls = <<>> /\ put(url, data)
    \/ \E url \in Urls, data \in Datas : calls = <<>> /\ patch(url, data)
    \/ \E url \in Urls : calls = <<>> /\ delete(url)
    \/ \E m \in Methods, url \in Urls, data \in Datas :
          calls = <<>> /\ httpDirect(m, url, data)
    \/ \E i \in 1..Len(calls), outcome \in TransportOutcomes : Settle(i, outcome)
    \/ \E i \in 1..Len(calls) : Consume(i)

Spec == Init /\ [][Next]_vars

\* bounds of the concurrent and of the router specifications
MaxCalls == 2
MaxNav == 3
MaxRedirects == 3

ConcMethods == {"get", "post"}
ConcTokens == {Null, Str("abc"), Str("xyz")}
ConcOutcomes ==
    { Fulfilled(Response(200, [t |-> "object", id |-> Num(1)])),
      Fulfilled(Response(200, [t |-> "object", id |-> Num(2)])),
      Rejected(AxiosStatusError(404, ServerMessage)) }

\* callers that do not await: several requests in flight, tokens rotating
NextConc ==
    \/ \E token \in ConcTokens : setAuthToken(token)
    \/ \E m \in ConcMethods, url \in Urls :
          Len(calls) < MaxCalls /\ request(m, url, Body)
    \/ \E i \in 1..Len(calls), outcome \in ConcOutcomes : Settle(i, outcome)

SpecConc == Init /\ [][NextConc]_vars

WrapTokens == {Null, Str("abc")}
WrapOutcomes ==
    { Fulfilled(Response(200, [t |-> "object", id |-> Num(1)])),
      Rejected(AxiosStatusError(404, ServerMessage)) }

\* the body a caller passes with method m
ArgsOf(m) == IF m \in {"get", "delete"} THEN {Undefined} ELSE {Body}

\* callers of request and of the five wrappers side by side
NextWrap ==
    \/ \E token \in WrapTokens : setAuthToken(token)
    \/ \E m \in Methods, url \in Urls : \E data \in ArgsOf(m) :
          Len(calls) < MaxCalls /\ request(m, url, data)
    \/ \E url \in Urls : Len(calls) < MaxCalls /\ get(url)
    \/ \E url \in Urls, data \in ArgsOf("post") :
          Len(calls) < MaxCalls /\ post(url, data)
    \/ \E url \in Urls, data \in ArgsOf("put") :
          Len(calls) < MaxCalls /\ put(url, data)
    \/ \E url \in Urls, data \in ArgsOf("patch") :
          Len(calls) < MaxCalls /\ patch(url, data)
    \/ \E url \in Urls : Len(calls) < MaxCalls /\ delete(url)
    \/ \E i \in 1..Len(calls), outcome \in WrapOutcomes : Settle(i, outcome)

SpecWrap == Init /\ [][NextWrap]_vars

\* navigations, with the stored item changing between them
NextRouter ==
    \/ \E value \in StoredTokens : setItem(value)
    \/ removeItem
    \/ \E path \in Paths : Len(navLog) < MaxNav /\ push(path)
    \/ (nav # Null => nav.redirects < MaxRedirects) /\ Resolve

SpecRouter == Init /\ [][NextRouter]_vars

-----------------------------------------------------------------------------
(* Properties *)

IsSettled(i) == calls[i].outcome # Pending
SettledFacade == {i \in 1..Len(calls) : IsSettled(i) /\ calls[i].client = "facade"}
IsEnvelope(v) == v.t = "object" /\ "data" \in DOMAIN v
HasError(v) == "error" \in DOMAIN v
IsFailureRecord(v) ==
    v.t = "object" /\ {"message", "status", "errorMessage"} \subseteq DOMAIN v
KnownStatuses == {400, 401, 403, 404, 500}
Labels ==
    {Str("Bad Request"), Str("Unauthorized"), Str("Forbidden"), Str("Not Found"),
     Str("Internal Server Error"), Str("Error")}
LabelOf(code) ==
    CASE code = 400 -> Str("Bad Request")
      [] code = 401 -> Str("Unauthorized")
      [] code = 403 -> Str("Forbidden")
      [] code = 404 -> Str("Not Found")
      [] code = 500 -> Str("Internal Server Error")

\* C1: whatever the method and whatever the transport settles with (a
\* response, a status error, a network error, any other rejected value), the
\* promise request returns is fulfilled with an envelope; it never rejects.
C1_NeverRejects ==
    \A i \in SettledFacade :
        /\ calls[i].result.kind = "fulfilled"
        /\ IsEnvelope(calls[i].result.value)

C1_Witness ==
    \E i \in SettledFacade :
        /\ calls[i].outcome = Rejected(Null)
        /\ calls[i].result.kind = "fulfilled"
        /\ calls[i].result.value.data = Null

\* C2: a request the server answers with a non-success status s resolves with
\* data = null, error.status = s and error.errorMessage the fixed label of s
\* (404 gives "Not Found"), the response interceptor being registered.
C2_StatusAndLabel ==
    \A i \in SettledFacade :
        calls[i].outcome \in StatusOutcomes =>
            LET s == calls[i].outcome.value.response.status
                r == calls[i].result
            IN /\ r.kind = "fulfilled"
               /\ r.value.data = Null
               /\ HasError(r.value)
               /\ r.value.error.status = s
               /\ s.n \in KnownStatuses => r.value.error.errorMessage = LabelOf(s.n)

\* C3: every envelope has exactly one of "data is non-null" and "an error
\* record is present", a success with a null or empty body included.
C3_ExactlyOne ==
    \A i \in SettledFacade :
        calls[i].result.kind = "fulfilled" =>
            LET e == calls[i].result.value
            IN (~IsNullish(Get(e, "data"))) # HasError(e)

\* C6: a transport failure with no response resolves with data = null,
\* error.status undefined and error.errorMessage = "Error".
C6_NetworkFailure ==
    \A i \in SettledFacade :
        calls[i].outcome = Rejected(AxiosNetworkError) =>
            LET r == calls[i].result
            IN /\ r.kind = "fulfilled"
               /\ r.value.data = Null
               /\ HasError(r.value)
               /\ "status" \in DOMAIN r.value.error
               /\ r.value.error.status = Undefined
               /\ r.value.error.errorMessage = Str("Error")

C6_Witness ==
    \E i \in SettledFacade :
        /\ calls[i].outcome = Rejected(AxiosNetworkError)
        /\ calls[i].result.value.error.message = Str("Network Error")

\* C7: for one transport failure, the record the interceptor rejects with and
\* the error record of the envelope request returns carry the same message,
\* status and errorMessage.
C7_LayersAgree ==
    \A i \in SettledFacade :
        (calls[i].settled.kind = "rejected" /\ IsFailureRecord(calls[i].settled.value)) =>
            /\ calls[i].result.kind = "fulfilled"
            /\ HasError(calls[i].result.value)
            /\ IsFailureRecord(calls[i].result.value.error)
            /\ calls[i].result.value.error.message = calls[i].settled.value.message
            /\ calls[i].result.value.error.status = calls[i].settled.value.status
            /\ calls[i].result.value.error.errorMessage
                  = calls[i].settled.value.errorMessage

\* C8: getErrorMessage gives "Error" for every status outside 400, 401, 403,
\* 404, 500 and for an absent status, and always gives one of the six labels,
\* never undefined: seen in every record the interceptor rejects with and in
\* every envelope's error record.
C8_DefaultLabel ==
    \A i \in 1..Len(calls) :
        /\ (IsSettled(i) /\ calls[i].settled.kind = "rejected"
              /\ IsFailureRecord(calls[i].settled.value)) =>
            LET rec == calls[i].settled.value
            IN /\ rec.errorMessage \in Labels
               /\ (rec.status = Undefined \/ rec.status.n \notin KnownStatuses)
                     => rec.errorMessage = Str("Error")
               /\ (rec.status # Undefined /\ rec.status.n \in KnownStatuses)
                     => rec.errorMessage = LabelOf(rec.status.n)
               /\ calls[i].outcome \in StatusOutcomes
                     => rec.status = calls[i].outcome.value.response.status
        /\ (i \in SettledFacade /\ calls[i].result.kind = "fulfilled"
              /\ HasError(calls[i].result.value)) =>
            calls[i].result.value.error.errorMessage \in Labels

C8_Witness ==
    \E i \in 1..Len(calls) :
        /\ calls[i].client = "direct"
        /\ calls[i].outcome = Rejected(AxiosStatusError(418, ServerMessage))
        /\ calls[i].result.kind = "rejected"
        /\ calls[i].result.value.status = Num(418)
        /\ calls[i].result.value.errorMessage = Str("Error")

\* C4 as claimed: the default header, and the header of every request issued,
\* is "Bearer " + t for the latest setAuthToken argument t when t is not null,
\* and "" when it is null or setAuthToken was never called; authToken and the
\* header agree.
HeaderClaimed(arg) ==
    IF arg \in {NeverCalled, Null} THEN Str("") ELSE Str("Bearer " \o arg.s)

C4_HeaderFollowsNonNullToken ==
    /\ Authorization = HeaderClaimed(lastArg)
    /\ Authorization = HeaderClaimed(authToken)
    /\ \A i \in 1..Len(calls) : calls[i].header = HeaderClaimed(calls[i].tokenAtIssue)

\* C4, amended: the header is "Bearer " + t when the latest argument t is a
\* non-empty string, and "" when it is null or the empty string or
\* setAuthToken was never called; authToken is that latest argument (null
\* before any call) and the header is the one derived from it.
HeaderAmended(arg) ==
    IF arg \in {NeverCalled, Null, Str("")} THEN Str("") ELSE Str("Bearer " \o arg.s)

C4_HeaderFollowsNonEmptyToken ==
    /\ Authorization = HeaderAmended(lastArg)
    /\ authToken = (IF lastArg = NeverCalled THEN Null ELSE lastArg)
    /\ Authorization = HeaderAmended(authToken)
    /\ \A i \in 1..Len(calls) : calls[i].header = HeaderAmended(calls[i].tokenAtIssue)

C4_Witness ==
    /\ lastArg = Str("")
    /\ Authorization = Str("")
    /\ \E i \in 1..Len(calls) :
          /\ calls[i].tokenAtIssue = Str("abc")
          /\ calls[i].header = Str("Bearer abc")

\* C5: a call made through the wrapper m is one underlying call with method
\* m, and it resolves with the envelope that request(m, ...) resolves with
\* for the same arguments, token state and transport outcome.
C5_SameAsRequest ==
    /\ \A i \in 1..Len(calls) :
          calls[i].via \in Methods =>
              calls[i].method = calls[i].via /\ calls[i].client = "facade"
    /\ \A i, j \in SettledFacade :
          (/\ calls[i].via \in Methods
           /\ calls[j].via = "request"
           /\ calls[j].method = calls[i].via
           /\ calls[j].url = calls[i].url
           /\ calls[j].data = calls[i].data
           /\ calls[j].tokenAtIssue = calls[i].tokenAtIssue
           /\ calls[j].outcome = calls[i].outcome)
          => /\ calls[i].result = calls[j].result
             /\ calls[i].header = calls[j].header

\* a step of a wrapper adds one call and no more
C5_OneCallPerStep == Len(calls') <= Len(calls) + 1

C5_WrapperEqualsRequest == []C5_SameAsRequest /\ [][C5_OneCallPerStep]_vars

C5_Witness ==
    \E i, j \in SettledFacade :
        /\ calls[i].via = "delete"
        /\ calls[j].via = "request"
        /\ calls[j].method = "delete"
        /\ calls[i].tokenAtIssue = Str("abc")
        /\ calls[j].tokenAtIssue = Str("abc")
        /\ calls[i].outcome = Rejected(AxiosStatusError(404, ServerMessage))
        /\ calls[j].outcome = calls[i].outcome
        /\ calls[i].result = calls[j].result

\* C9: with requests in flight and setAuthToken calls between them, each
\* request carries the header of the token that was current when it was
\* issued; no later step changes the header of a request already issued; and
\* each request resolves with the envelope of its own response, whatever the
\* order the responses arrive in.
C9_HeaderAtIssue ==
    \A i \in 1..Len(calls) :
        /\ calls[i].header = HeaderAmended(calls[i].tokenAtIssue)
        /\ (IsSettled(i) /\ calls[i].outcome.kind = "fulfilled") =>
              calls[i].result = Fulfilled([t |-> "object",
                                           data |-> calls[i].outcome.value.data])
        /\ (IsSettled(i) /\ calls[i].outcome.kind = "rejected") =>
              /\ calls[i].result.kind = "fulfilled"
              /\ calls[i].result.value.data = Null
              /\ HasError(calls[i].result.value)

C9_IssuedStaysAsIssued ==
    \A i \in 1..Len(calls) :
        /\ Len(calls') >= Len(calls)
        /\ calls'[i].header = calls[i].header
        /\ IsSettled(i) => calls'[i] = calls[i]

C9_InFlightIsolation == []C9_HeaderAtIssue /\ [][C9_IssuedStaysAsIssued]_vars

C9_Witness ==
    /\ Len(calls) = 2
    /\ ~IsSettled(1)
    /\ IsSettled(2)
    /\ calls[1].header = Str("Bearer abc")
    /\ calls[2].header = Str("Bearer xyz")
    /\ calls[2].result.value.data = [t |-> "object", id |-> Num(2)]
    /\ Authorization = Str("")

\* C10: the guard sends a navigation to "/login" exactly when its target is
\* not "/login" and no token_user item is stored; a navigation to "/login" is
\* never redirected, so a navigation is redirected at most once, and one made
\* with a stored token_user is not redirected.
C10_GuardStep ==
    (nav # Null /\ nav' # nav) =>
        ( (nav' # Null /\ nav'.to = "/login" /\ nav'.redirects = nav.redirects + 1)
          <=> (nav.to # "/login" /\ token_user = Null) )

C10_AtMostOneRedirect ==
    nav # Null =>
        /\ nav.redirects <= 1
        /\ nav.redirects = 1 => nav.to = "/login"

C10_RedirectToLogin == []C10_AtMostOneRedirect /\ [][C10_GuardStep]_vars

C10_Witness ==
    /\ nav # Null
    /\ nav.redirects = 1
    /\ nav.to = "/login"
    /\ token_user = Null
    /\ Len(navLog) > 0

====
